---- MODULE Spec2Model ----
(***************************************************************************)
(* A model of the two-phase CSV translation tool (transcmd.py and its      *)
(* older variant translations.py).  File contents are sequences of         *)
(* characters; the text layer (universal newlines), csv.reader and         *)
(* csv.writer are modelled by what they do to those characters.            *)
(***************************************************************************)
EXTENDS Integers, Sequences, FiniteSets, TLC

(***************************************************************************)
(* Characters                                                              *)
(***************************************************************************)
quotechar == "\""
delimiter == ","
LF == "\n"
CR == "\r"
\* the end-of-line marker csv.reader feeds its state machine after each line
EOL == "EOL"

(***************************************************************************)
(* Text layer: open(path, 'r', encoding='utf-8') uses newline=None, so     *)
(* "\r\n" and a lone "\r" are both read as "\n".                           *)
(***************************************************************************)
RECURSIVE translate_newlines(_, _)
translate_newlines(raw, i) ==
    IF i > Len(raw) THEN <<>>
    ELSE IF raw[i] = CR
         THEN IF i < Len(raw) /\ raw[i + 1] = LF
              THEN <<LF>> \o translate_newlines(raw, i + 2)
              ELSE <<LF>> \o translate_newlines(raw, i + 1)
         ELSE <<raw[i]>> \o translate_newlines(raw, i + 1)

open_read(raw) == translate_newlines(raw, 1)

\* fin.readline() at position pos (1-based): the index just past the line read,
\* which ends with its "\n" unless the text ends first; pos itself at end of file.
RECURSIVE readline_end(_, _)
readline_end(text, pos) ==
    IF pos > Len(text) THEN pos
    ELSE IF text[pos] = LF THEN pos + 1
    ELSE readline_end(text, pos + 1)

readline(text, pos) == SubSeq(text, pos, readline_end(text, pos) - 1)

(***************************************************************************)
(* csv.reader, default dialect (delimiter ',', quotechar '"', doublequote, *)
(* no escapechar, not strict): the state machine of the csv module.        *)
(***************************************************************************)
IsNewline(c) == c = LF \/ c = CR

AfterLineEnd(c) == IF c = EOL THEN "START_RECORD" ELSE "EAT_CRNL"

SaveField(p) == [p EXCEPT !.fields = Append(p.fields, p.field), !.field = <<>>]

AddChar(p, c) == [p EXCEPT !.field = Append(p.field, c)]

StartField(p, c) ==
    IF IsNewline(c) \/ c = EOL
    THEN [SaveField(p) EXCEPT !.state = AfterLineEnd(c)]
    ELSE IF c = quotechar THEN [p EXCEPT !.state = "IN_QUOTED_FIELD"]
    ELSE IF c = delimiter THEN [SaveField(p) EXCEPT !.state = "START_FIELD"]
    ELSE [AddChar(p, c) EXCEPT !.state = "IN_FIELD"]

parse_process_char(p, c) ==
    CASE p.state = "START_RECORD" ->
           IF c = EOL THEN p
           ELSE IF IsNewline(c) THEN [p EXCEPT !.state = "EAT_CRNL"]
           ELSE StartField(p, c)
      [] p.state = "START_FIELD" -> StartField(p, c)
      [] p.state = "IN_FIELD" ->
           IF IsNewline(c) \/ c = EOL
           THEN [SaveField(p) EXCEPT !.state = AfterLineEnd(c)]
           ELSE IF c = delimiter THEN [SaveField(p) EXCEPT !.state = "START_FIELD"]
           ELSE AddChar(p, c)
      [] p.state = "IN_QUOTED_FIELD" ->
           IF c = EOL THEN p
           ELSE IF c = quotechar THEN [p EXCEPT !.state = "QUOTE_IN_QUOTED_FIELD"]
           ELSE AddChar(p, c)
      [] p.state = "QUOTE_IN_QUOTED_FIELD" ->
           IF c = quotechar THEN [AddChar(p, c) EXCEPT !.state = "IN_QUOTED_FIELD"]
           ELSE IF c = delimiter THEN [SaveField(p) EXCEPT !.state = "START_FIELD"]
           ELSE IF IsNewline(c) \/ c = EOL
           THEN [SaveField(p) EXCEPT !.state = AfterLineEnd(c)]
           ELSE [AddChar(p, c) EXCEPT !.state = "IN_FIELD"]
      [] p.state = "EAT_CRNL" ->
           IF c = EOL THEN [p EXCEPT !.state = "START_RECORD"] ELSE p

parse_reset == [state |-> "START_RECORD", field |-> <<>>, fields |-> <<>>]

\* The records csv.reader yields from text[pos..]: each line's characters go
\* through the state machine, then the end-of-line marker; a record ends when
\* the machine is back in START_RECORD, and a record still open at end of file
\* (an unterminated quoted field) is yielded as it stands.
RECURSIVE reader_records(_, _, _, _)
reader_records(text, pos, p, records) ==
    IF pos > Len(text)
    THEN IF p.state = "IN_QUOTED_FIELD" \/ Len(p.field) # 0
         THEN Append(records, SaveField(p).fields)
         ELSE records
    ELSE LET c == text[pos]
             p1 == parse_process_char(p, c)
             lineEnds == c = LF \/ pos = Len(text)
             p2 == IF lineEnds THEN parse_process_char(p1, EOL) ELSE p1
         IN  IF lineEnds /\ p2.state = "START_RECORD"
             THEN reader_records(text, pos + 1, parse_reset, Append(records, p2.fields))
             ELSE reader_records(text, pos + 1, p2, records)

csv_reader(text, pos) == reader_records(text, pos, parse_reset, <<>>)

(***************************************************************************)
(* csv.writer(quoting=csv.QUOTE_ALL): every field in quotes, inner quotes  *)
(* doubled, fields joined by the delimiter, "\r\n" after each row.  The    *)
(* output files are opened with newline='', so what is written is stored.  *)
(***************************************************************************)
RECURSIVE double_quotes(_)
double_quotes(f) ==
    IF f = <<>> THEN <<>>
    ELSE (IF Head(f) = quotechar THEN <<quotechar, quotechar>> ELSE <<Head(f)>>)
         \o double_quotes(Tail(f))

quote_field(f) == <<quotechar>> \o double_quotes(f) \o <<quotechar>>

RECURSIVE join_fields(_)
join_fields(row) ==
    IF row = <<>> THEN <<>>
    ELSE IF Len(row) = 1 THEN quote_field(row[1])
    ELSE quote_field(row[1]) \o <<delimiter>> \o join_fields(Tail(row))

writerow(row) == join_fields(row) \o <<CR, LF>>

RECURSIVE writerows(_)
writerows(rows) ==
    IF rows = <<>> THEN <<>> ELSE writerow(Head(rows)) \o writerows(Tail(rows))

(***************************************************************************)
(* create_mapping_file (the Extractor); the function is the same text in   *)
(* transcmd.py and translations.py.                                        *)
(***************************************************************************)
\* the literal 3 of "for _ in range(3)" and of "len(row) >= 3"
header_rows == 3
min_fields == 3

\* faulty variant: one header record too few is skipped
skip_header_records_short(records) ==
    SubSeq(records, header_rows, Len(records))

\* for _ in range(3): next(reader, None)
skip_header_records(records) ==
    SubSeq(records, header_rows + 1, Len(records))

\* faulty variant: ">" written for ">="
is_data_row_strict(row) == Len(row) > min_fields

\* if len(row) >= 3
is_data_row(row) == Len(row) >= min_fields

\* faulty variant: the third column is extracted instead of the second
RECURSIVE extract_loop_third_column(_, _, _)
extract_loop_third_column(records, i, acc) ==
    IF i > Len(records) THEN acc
    ELSE LET row == records[i] IN
         IF is_data_row(row)
         THEN extract_loop_third_column(records, i + 1,
                  [rows |-> Append(acc.rows, <<row[1], row[3]>>),
                   out |-> acc.out \o writerow(<<row[1], row[3]>>),
                   rows_written |-> acc.rows_written + 1])
         ELSE extract_loop_third_column(records, i + 1, acc)

\* for row in reader: if len(row) >= 3: writer.writerow([key, original_text])
RECURSIVE extract_loop(_, _, _)
extract_loop(records, i, acc) ==
    IF i > Len(records) THEN acc
    ELSE LET row == records[i] IN
         IF is_data_row(row)
         THEN LET key == row[1]
                  original_text == row[2]
              IN  extract_loop(records, i + 1,
                      [rows |-> Append(acc.rows, <<key, original_text>>),
                       out |-> acc.out \o writerow(<<key, original_text>>),
                       rows_written |-> acc.rows_written + 1])
         ELSE extract_loop(records, i + 1, acc)

create_mapping_file(source_raw) ==
    extract_loop(skip_header_records(csv_reader(open_read(source_raw), 1)), 1,
                 [rows |-> <<>>, out |-> <<>>, rows_written |-> 0])

(***************************************************************************)
(* build_translation_file (the Merger)                                     *)
(***************************************************************************)
empty_dict == [k \in {} |-> <<>>]

\* faulty variant: an existing key keeps its first text
dict_set_keep_first(d, key, value) ==
    [k \in DOMAIN d \cup {key} |-> IF k \in DOMAIN d THEN d[k] ELSE value]

\* translations[key] = new_text
dict_set(d, key, value) ==
    [k \in DOMAIN d \cup {key} |-> IF k = key THEN value ELSE d[k]]

\* for row in reader: if len(row) >= 2: translations[row[0]] = row[1]
RECURSIVE load_loop(_, _, _)
load_loop(records, i, translations) ==
    IF i > Len(records) THEN translations
    ELSE LET row == records[i] IN
         IF Len(row) >= 2
         THEN load_loop(records, i + 1, dict_set(translations, row[1], row[2]))
         ELSE load_loop(records, i + 1, translations)

load_translations(mapping_raw) ==
    load_loop(csv_reader(open_read(mapping_raw), 1), 1, empty_dict)

\* faulty variant: the index is never consulted
resolve_text_fallback_only(row, translations) == row[3]

\* if key in translations: new_text = translations[key] else: new_text = row[2]
resolve_text(row, translations) ==
    IF row[1] \in DOMAIN translations THEN translations[row[1]] ELSE row[3]

\* the data-row loop shared by both variants of build_translation_file
RECURSIVE merge_loop(_, _, _, _)
merge_loop(records, i, translations, acc) ==
    IF i > Len(records) THEN acc
    ELSE LET row == records[i] IN
         IF is_data_row(row)
         THEN LET key == row[1]
                  original_text == row[2]
                  new_text == resolve_text(row, translations)
              IN  merge_loop(records, i + 1, translations,
                      [data_rows |-> Append(acc.data_rows, <<key, original_text, new_text>>),
                       matched_count |-> acc.matched_count
                                           + (IF key \in DOMAIN translations THEN 1 ELSE 0)])
         ELSE merge_loop(records, i + 1, translations, acc)

\* transcmd.py: for _ in range(3): line = fin.readline(); if line: append
RECURSIVE read_header_lines(_, _, _, _)
read_header_lines(text, pos, n, lines) ==
    IF n = 0 THEN [header_lines |-> lines, pos |-> pos]
    ELSE LET line == readline(text, pos) IN
         read_header_lines(text, readline_end(text, pos), n - 1,
                           IF line # <<>> THEN Append(lines, line) ELSE lines)

RECURSIVE write_lines(_)
write_lines(lines) ==
    IF lines = <<>> THEN <<>> ELSE Head(lines) \o write_lines(Tail(lines))

\* transcmd.py: raw header lines, then the quoted data rows
transcmd_build_translation_file(source_raw, mapping_raw) ==
    LET translations == load_translations(mapping_raw)
        text == open_read(source_raw)
        h == read_header_lines(text, 1, header_rows, <<>>)
        m == merge_loop(csv_reader(text, h.pos), 1, translations,
                        [data_rows |-> <<>>, matched_count |-> 0])
    IN  [translations |-> translations,
         header_lines |-> h.header_lines,
         data_rows |-> m.data_rows,
         matched_count |-> m.matched_count,
         out |-> write_lines(h.header_lines) \o writerows(m.data_rows)]

\* translations.py: header_row = next(reader, None); if header_row: rows.append
RECURSIVE read_header_records(_, _, _)
read_header_records(records, i, rows) ==
    IF i > header_rows THEN rows
    ELSE IF i <= Len(records) /\ records[i] # <<>>
         THEN read_header_records(records, i + 1, Append(rows, records[i]))
         ELSE read_header_records(records, i + 1, rows)

\* translations.py: header records kept as parsed rows, everything re-quoted
translations_build_translation_file(source_raw, mapping_raw) ==
    LET translations == load_translations(mapping_raw)
        records == csv_reader(open_read(source_raw), 1)
        header == read_header_records(records, 1, <<>>)
        m == merge_loop(skip_header_records(records), 1, translations,
                        [data_rows |-> <<>>, matched_count |-> 0])
    IN  [translations |-> translations,
         rows |-> header \o m.data_rows,
         header_count |-> Len(header),
         matched_count |-> m.matched_count,
         out |-> writerows(header \o m.data_rows)]

(***************************************************************************)
(* The command line: main() of transcmd.py and of translations.py, run by  *)
(* the operator on three files.  Each run reads and writes the file system *)
(* and prints to the console: console is the outcome the last run printed  *)
(* (a not-found error, or "ok" for its success report); ext, mrg and alt   *)
(* keep what the most recent run of each function computed (the values its *)
(* final prints report) and the mapping text a build was given.            *)
(***************************************************************************)
VARIABLES fs, console, ext, mrg, alt

vars == <<fs, console, ext, mrg, alt>>

Paths == {"source", "mapping", "output"}

NoFile == [exists |-> FALSE, data |-> <<>>]

File(data) == [exists |-> TRUE, data |-> data]

\* if not source_path.exists(): ... return
create_preflight(source_exists) ==
    IF ~source_exists THEN "SourceNotFound" ELSE "ok"

\* faulty variant: the mapping is checked before the source
build_preflight_mapping_first(source_exists, mapping_exists) ==
    IF ~mapping_exists THEN "MappingNotFound"
    ELSE IF ~source_exists THEN "SourceNotFound"
    ELSE "ok"

\* if not source_path.exists(): ... return; if not mapping_path.exists(): ... return
build_preflight(source_exists, mapping_exists) ==
    IF ~source_exists THEN "SourceNotFound"
    ELSE IF ~mapping_exists THEN "MappingNotFound"
    ELSE "ok"

\* either program's "create <source> [mapping]"
RunCreate ==
    LET check == create_preflight(fs["source"].exists) IN
    IF check # "ok"
    THEN /\ console' = check
         /\ UNCHANGED <<fs, ext, mrg, alt>>
    ELSE LET r == create_mapping_file(fs["source"].data) IN
         /\ fs' = [fs EXCEPT !["mapping"] = File(r.out)]
         /\ ext' = [ran |-> TRUE, rows |-> r.rows, rows_written |-> r.rows_written,
                    out |-> r.out]
         /\ console' = "ok"
         /\ UNCHANGED <<mrg, alt>>

transcmd_create == RunCreate

translations_create == RunCreate

transcmd_build ==
    LET check == build_preflight(fs["source"].exists, fs["mapping"].exists) IN
    IF check # "ok"
    THEN /\ console' = check
         /\ UNCHANGED <<fs, ext, mrg, alt>>
    ELSE LET r == transcmd_build_translation_file(fs["source"].data, fs["mapping"].data) IN
         /\ fs' = [fs EXCEPT !["output"] = File(r.out)]
         /\ mrg' = [ran |-> TRUE, mapping |-> fs["mapping"].data,
                    translations |-> r.translations, header_lines |-> r.header_lines,
                    data_rows |-> r.data_rows, matched_count |-> r.matched_count,
                    out |-> r.out]
         /\ console' = "ok"
         /\ UNCHANGED <<ext, alt>>

translations_build ==
    LET check == build_preflight(fs["source"].exists, fs["mapping"].exists) IN
    IF check # "ok"
    THEN /\ console' = check
         /\ UNCHANGED <<fs, ext, mrg, alt>>
    ELSE LET r == translations_build_translation_file(fs["source"].data, fs["mapping"].data) IN
         /\ fs' = [fs EXCEPT !["output"] = File(r.out)]
         /\ alt' = [ran |-> TRUE, mapping |-> fs["mapping"].data,
                    translations |-> r.translations, rows |-> r.rows,
                    header_count |-> r.header_count, matched_count |-> r.matched_count,
                    out |-> r.out]
         /\ console' = "ok"
         /\ UNCHANGED <<ext, mrg>>

Next ==
    \/ transcmd_create
    \/ transcmd_build
    \/ translations_create
    \/ translations_build

(***************************************************************************)
(* The files the operator may start from                                   *)
(***************************************************************************)
MaxData == 2
MaxMapLines == 2

SeqsUpTo(S, n) == UNION {[1..k -> S] : k \in 0..n}

RECURSIVE Lines(_, _)
Lines(bodies, eol) ==
    IF bodies = <<>> THEN <<>> ELSE Head(bodies) \o eol \o Lines(Tail(bodies), eol)

\* header lines: blank, a lone unquoted word, a line that opens a quoted field
HeaderBodies == {<<>>, <<"a">>, <<quotechar, "a">>}

\* data lines: three fields, the same key with another text, two fields only,
\* a line whose first field ends with a quote
DataBodies == {<<"a", delimiter, "b", delimiter, "c">>,
               <<"a", delimiter, "c", delimiter, "b">>,
               <<"b", delimiter, "a">>,
               <<"b", quotechar, delimiter, "a", delimiter, "c">>}

\* a source has data lines only after three header lines
SourceBodies ==
    {h \o d : h \in [1..header_rows -> HeaderBodies], d \in SeqsUpTo(DataBodies, MaxData)}
    \cup SeqsUpTo(HeaderBodies, header_rows - 1)

Sources ==
    {Lines(b, <<LF>>) : b \in SourceBodies}
    \cup {Lines(b, <<CR, LF>>) : b \in {x \in SourceBodies : Len(x) <= header_rows + 1}}

\* hand-edited mapping lines: two texts for key a, a one-field line, a quoted text
MapBodies == {<<"a", delimiter, "b">>,
              <<"a", delimiter, "c">>,
              <<"b">>,
              <<quotechar, "b", quotechar, delimiter, quotechar, "a", quotechar, quotechar, quotechar>>}

Mappings == {Lines(b, <<CR, LF>>) : b \in SeqsUpTo(MapBodies, MaxMapLines)}

\* the sources the hand-edited mappings are merged into
EditedSources ==
    {Lines(<<<<"a">>, <<>>, <<"a">>>> \o d, <<LF>>) :
        d \in {<<>>,
               <<<<"a", delimiter, "b", delimiter, "c">>>>,
               <<<<"b", delimiter, "a", delimiter, "c">>, <<"b", delimiter, "a">>,
                 <<"a", delimiter, "c", delimiter, "b">>>>,
               <<<<"b", delimiter, "a">>, <<"c", delimiter, "b", delimiter, "a", delimiter, "a">>>>}}

StaleOutput == <<quotechar, "b", quotechar, CR, LF>>

NotRun ==
    /\ console = ""
    /\ ext = [ran |-> FALSE, rows |-> <<>>, rows_written |-> 0, out |-> <<>>]
    /\ mrg = [ran |-> FALSE, mapping |-> <<>>, translations |-> empty_dict,
              header_lines |-> <<>>, data_rows |-> <<>>, matched_count |-> 0, out |-> <<>>]
    /\ alt = [ran |-> FALSE, mapping |-> <<>>, translations |-> empty_dict,
              rows |-> <<>>, header_count |-> 0, matched_count |-> 0, out |-> <<>>]

Files(source, mapping, output) ==
    [p \in Paths |-> CASE p = "source" -> source
                       [] p = "mapping" -> mapping
                       [] p = "output" -> output]

\* a fresh source, nothing extracted yet
InitFresh ==
    \E s \in Sources : fs = Files(File(s), NoFile, NoFile)

\* a source with a hand-edited mapping
InitEdited ==
    \E s \in EditedSources, m \in Mappings : fs = Files(File(s), File(m), NoFile)

\* a source, no mapping yet, and the output of an earlier build
InitStale ==
    \E s \in EditedSources : fs = Files(File(s), NoFile, File(StaleOutput))

\* the source path does not exist
InitNoSource ==
    \E m \in {NoFile, File(<<"a", delimiter, "b", CR, LF>>)},
       o \in {NoFile, File(StaleOutput)} :
        fs = Files(NoFile, m, o)

Init == NotRun /\ (InitFresh \/ InitEdited \/ InitStale \/ InitNoSource)

Spec == Init /\ [][Next]_vars

(***************************************************************************)
(* What the properties are stated in: the source as the text layer gives   *)
(* it, its records, and the place where its first three lines end.         *)
(***************************************************************************)
LineEnds(t) == {i \in 1..Len(t) : t[i] = LF}

\* the index of the last character of the third line (of the last line when
\* there are fewer than three)
HeaderEnd(t) ==
    IF Cardinality(LineEnds(t)) < 3 THEN Len(t)
    ELSE CHOOSE i \in LineEnds(t) : Cardinality({j \in LineEnds(t) : j <= i}) = 3

SourceRaw == fs["source"].data

SourceText == open_read(SourceRaw)

HasThreeFields(row) == Len(row) >= 3

\* the records after the first three raw lines that have at least 3 fields
RowsAfterHeaderLines ==
    SelectSeq(csv_reader(SourceText, HeaderEnd(SourceText) + 1), HasThreeFields)

\* the records after the first three records that have at least 3 fields
RowsAfterHeaderRecords ==
    LET records == csv_reader(SourceText, 1)
    IN  SelectSeq(SubSeq(records, 4, Len(records)), HasThreeFields)

Keys(rows) == [i \in 1..Len(rows) |-> rows[i][1]]

\* the build ran on the mapping exactly as the last create wrote it
RoundTrip == ext.ran /\ mrg.ran /\ mrg.mapping = ext.out

(***************************************************************************)
(* C1: the transcmd.py build writes, as the first bytes of its output, the *)
(* first 3 lines of the source unchanged (all of the source when it has    *)
(* fewer than 3 lines).                                                    *)
(***************************************************************************)
C1_HeaderBytesUnchanged ==
    mrg.ran =>
        LET header == SubSeq(SourceRaw, 1, HeaderEnd(SourceRaw))
        IN  /\ Len(mrg.out) >= Len(header)
            /\ SubSeq(mrg.out, 1, Len(header)) = header

(***************************************************************************)
(* C2: every source row after the header with at least 3 fields is emitted *)
(* as (key, original, resolved): key and original are its first two fields *)
(* and resolved is the index value of the key when the index has the key,  *)
(* and the row's third field otherwise.                                    *)
(***************************************************************************)
C2_ResolvedText ==
    mrg.ran =>
        LET rows == RowsAfterHeaderLines
        IN  /\ Len(mrg.data_rows) = Len(rows)
            /\ \A i \in 1..Len(rows) :
                 mrg.data_rows[i] =
                     <<rows[i][1], rows[i][2],
                       IF rows[i][1] \in DOMAIN mrg.translations
                       THEN mrg.translations[rows[i][1]]
                       ELSE rows[i][3]>>

\* a build where one row's key is in the index with a text other than the row's
\* third field, and another row's key is not in the index
C2_Witness ==
    /\ mrg.ran
    /\ LET rows == RowsAfterHeaderLines
       IN  /\ Len(mrg.data_rows) = Len(rows)
           /\ \E i, j \in 1..Len(rows) :
                /\ rows[i][1] \in DOMAIN mrg.translations
                /\ mrg.data_rows[i][3] # rows[i][3]
                /\ rows[j][1] \notin DOMAIN mrg.translations
                /\ mrg.data_rows[j][3] = rows[j][3]

(***************************************************************************)
(* C3: the data rows of the transcmd.py build are, one for one and in      *)
(* order, the source rows after the header that have at least 3 fields;    *)
(* rows with fewer fields are dropped; and the rows are what the output    *)
(* file holds after its header lines.                                      *)
(***************************************************************************)
C3_RowsInOrder ==
    mrg.ran =>
        LET rows == RowsAfterHeaderLines
            written == open_read(mrg.out)
        IN  /\ Len(mrg.data_rows) = Len(rows)
            /\ \A i \in 1..Len(rows) :
                 /\ Len(mrg.data_rows[i]) = 3
                 /\ mrg.data_rows[i][1] = rows[i][1]
                 /\ mrg.data_rows[i][2] = rows[i][2]
            /\ csv_reader(written, HeaderEnd(written) + 1) = mrg.data_rows

\* a build that kept two rows with different keys and dropped a short row
C3_Witness ==
    /\ mrg.ran
    /\ Len(mrg.data_rows) >= 2
    /\ mrg.data_rows[1][1] # mrg.data_rows[2][1]
    /\ Len(csv_reader(SourceText, HeaderEnd(SourceText) + 1)) > Len(mrg.data_rows)

(***************************************************************************)
(* C4: create skips the first 3 records and writes (field 1, field 2) of   *)
(* every later record with at least 3 fields, in order, and nothing for a  *)
(* shorter one; the count it reports is the number of records written; the *)
(* mapping file holds exactly those 2-field records.                       *)
(***************************************************************************)
C4_Extracted ==
    ext.ran =>
        LET rows == RowsAfterHeaderRecords
        IN  /\ ext.rows = [i \in 1..Len(rows) |-> <<rows[i][1], rows[i][2]>>]
            /\ ext.rows_written = Len(ext.rows)
            /\ csv_reader(open_read(ext.out), 1) = ext.rows
            /\ fs["mapping"] = File(ext.out)
            /\ (rows = <<>> => ext.out = <<>> /\ ext.rows_written = 0)

\* a create that wrote a record and dropped a later record with fewer fields
C4_Witness ==
    /\ ext.ran
    /\ ext.rows_written >= 1
    /\ LET records == csv_reader(SourceText, 1)
       IN  \E i \in 4..Len(records) : Len(records[i]) \in 1..2

(***************************************************************************)
(* C5: the index holds, for every key of a mapping record with at least 2  *)
(* fields, the text of the last such record with that key, and no other    *)
(* key; every output row whose key is in the index carries that text.      *)
(***************************************************************************)
C5_LastRecordWins ==
    mrg.ran =>
        LET records == csv_reader(open_read(mrg.mapping), 1)
            used == {i \in 1..Len(records) : Len(records[i]) >= 2}
        IN  /\ DOMAIN mrg.translations = {records[i][1] : i \in used}
            /\ \A i \in used :
                 (\A j \in used : j > i => records[j][1] # records[i][1])
                     => mrg.translations[records[i][1]] = records[i][2]
            /\ \A n \in 1..Len(mrg.data_rows) :
                 mrg.data_rows[n][1] \in DOMAIN mrg.translations
                     => mrg.data_rows[n][3] = mrg.translations[mrg.data_rows[n][1]]

\* a build whose mapping has two records with one key and different texts, and
\* an output row with that key
C5_Witness ==
    /\ mrg.ran
    /\ LET records == csv_reader(open_read(mrg.mapping), 1)
       IN  \E i, j \in 1..Len(records) :
             /\ i < j
             /\ Len(records[i]) >= 2 /\ Len(records[j]) >= 2
             /\ records[i][1] = records[j][1]
             /\ records[i][2] # records[j][2]
             /\ \E n \in 1..Len(mrg.data_rows) :
                  /\ mrg.data_rows[n][1] = records[j][1]
                  /\ mrg.data_rows[n][3] = records[j][2]

(***************************************************************************)
(* C6: a build with a missing source reports SourceNotFound, a build with  *)
(* the source but no mapping reports MappingNotFound, a create with a      *)
(* missing source reports SourceNotFound; none of them creates or changes  *)
(* any file.                                                               *)
(***************************************************************************)
C6_MissingFileStops ==
    [][/\ (~fs["source"].exists /\ (transcmd_build \/ translations_build))
            => (console' = "SourceNotFound" /\ fs' = fs)
       /\ (fs["source"].exists /\ ~fs["mapping"].exists
             /\ (transcmd_build \/ translations_build))
            => (console' = "MappingNotFound" /\ fs' = fs)
       /\ (~fs["source"].exists /\ (transcmd_create \/ translations_create))
            => (console' = "SourceNotFound" /\ fs' = fs)]_vars

\* a build stopped on the missing mapping, the earlier output still in place
C6_Witness ==
    /\ console = "MappingNotFound"
    /\ fs["source"].exists
    /\ ~fs["mapping"].exists
    /\ fs["output"] = File(StaleOutput)

(***************************************************************************)
(* C7, as stated: after create and a build on the unedited mapping, the    *)
(* resolved text of every output row equals the row's original text.       *)
(***************************************************************************)
C7_ResolvedIsOriginal ==
    RoundTrip =>
        \A n \in 1..Len(mrg.data_rows) : mrg.data_rows[n][3] = mrg.data_rows[n][2]

(***************************************************************************)
(* C7, amended: after create and a build on the unedited mapping, every    *)
(* output row whose key create extracted carries the original text of the  *)
(* last extracted row with that key, whatever its third field; every other *)
(* output row keeps its third field.                                       *)
(***************************************************************************)
C7_ResolvedIsLastOriginal ==
    RoundTrip =>
        LET extracted == RowsAfterHeaderRecords
            rows == RowsAfterHeaderLines
            last(key) == CHOOSE i \in 1..Len(extracted) :
                            /\ extracted[i][1] = key
                            /\ \A j \in 1..Len(extracted) :
                                 j > i => extracted[j][1] # key
        IN  /\ Len(mrg.data_rows) = Len(rows)
            /\ \A n \in 1..Len(rows) :
                 mrg.data_rows[n][3] =
                     IF \E i \in 1..Len(extracted) : extracted[i][1] = rows[n][1]
                     THEN extracted[last(rows[n][1])][2]
                     ELSE rows[n][3]

\* a round trip with an output row that took the extracted original text, which
\* is not its third field
C7_Witness ==
    /\ RoundTrip
    /\ LET rows == RowsAfterHeaderLines
       IN  /\ Len(mrg.data_rows) = Len(rows)
           /\ \E n \in 1..Len(rows) :
                /\ mrg.data_rows[n][3] # rows[n][3]
                /\ mrg.data_rows[n][3] = rows[n][2]

(***************************************************************************)
(* C8: run on the same source and mapping, the two builds emit the same    *)
(* data rows after their header block and count the same matches.          *)
(***************************************************************************)
C8_VariantsAgree ==
    (mrg.ran /\ alt.ran /\ mrg.mapping = alt.mapping) =>
        /\ mrg.data_rows = SubSeq(alt.rows, alt.header_count + 1, Len(alt.rows))
        /\ mrg.matched_count = alt.matched_count

(***************************************************************************)
(* C9: the translations.py build keeps 3 header rows when the source has   *)
(* at least 3 records (a blank line being a record), and as many as there  *)
(* are when it has fewer.                                                  *)
(***************************************************************************)
C9_HeaderCount ==
    alt.ran =>
        LET records == csv_reader(SourceText, 1)
        IN  alt.header_count = IF Len(records) >= 3 THEN 3 ELSE Len(records)

(***************************************************************************)
(* C10: after create and a transcmd.py build on the unedited mapping, the  *)
(* keys of the mapping are the keys of the output rows, in order, and      *)
(* every output row was matched.                                           *)
(***************************************************************************)
C10_SameDataRows ==
    RoundTrip =>
        /\ Keys(ext.rows) = Keys(mrg.data_rows)
        /\ mrg.matched_count = Len(mrg.data_rows)

====
